---- MODULE Spec2Model ----
(***************************************************************************)
(* Hybrid logical clock of hlc-rs (src/lib.rs): the HLTimespec value type, *)
(* its derived ordering and Display rendering, and the State clock with    *)
(* its two operations get_time and update.                                 *)
(*                                                                         *)
(* Specifications:                                                         *)
(*   Spec       one State driven by an arbitrary wall-time source          *)
(*   SpecValue  the HLTimespec value type: comparison and Display          *)
(*   SpecReplay the tests::it_works harness: one State replaying a script  *)
(*   SpecNet    several States exchanging timestamps in messages           *)
(*   SpecMutex  one State in a Mutex (new_sendable) used by several threads*)
(***************************************************************************)
EXTENDS Integers, Sequences, FiniteSets, TLC

VARIABLES
    s,          \* State.s: the clock's current HLTimespec
    oc,         \* whether the build checks integer overflow (debug profile)
    status,     \* "idle" | "returned" | "panicked": how the last call ended
    ret,        \* <<t>>: the HLTimespec the last call returned; <<>> if none
    issued,     \* every HLTimespec returned so far, oldest first
    call,       \* the last call: [op, wall, event, prev]
    maxin,      \* history: the greatest of the zero wall and every wall time
                \* read from the source or carried by a merged event so far
    cmp,        \* SpecValue: the last comparison, operands and results
    shown,      \* SpecValue: the last Display::fmt, operand and output
    ops,        \* SpecReplay: the script of (wall, event) rows being replayed
    times,      \* SpecReplay: the readings the scripted source still holds
    nodes,      \* SpecNet: per node its State.s, its causal past, and if up
    msgs,       \* SpecNet: the messages sent, each a timestamp and its past
    ev,         \* SpecNet: the last event stamped, with its causal past
    mu,         \* SpecMutex: the Mutex around the State: holder and poison
    threads     \* SpecMutex: per thread its position and what it was handed

clockVars == <<s, oc, status, ret, issued, call, maxin>>
valueVars == <<cmp, shown>>
netVars == <<nodes, msgs, ev>>
muVars == <<mu, threads>>
replayVars == <<ops, times>>
vars ==
    <<s, oc, status, ret, issued, call, maxin, cmp, shown, ops, times, nodes,
      msgs, ev, mu, threads>>

---------------------------------------------------------------------------
(* Bounds and input samples *)

\* Calls made on one clock in Spec.
MaxCalls == 3

\* Length of the free scripts replayed in SpecReplay.
MaxScript == 2

\* Clocks in SpecNet, and events stamped by them altogether.
NumNodes == 2
MaxEvents == 3

\* Threads sharing the Mutex-wrapped State in SpecMutex.
NumThreads == 2

\* Largest nanosecond count of the timestamps compared in SpecValue.
MaxNsec == 1

\* Largest value of the u16 logical counter.
U16_MAX == 65535

Timespec(sec, nsec) == [sec |-> sec, nsec |-> nsec]

\* HLTimespec::new(s, ns, l)
new(sec, nsec, l) == [wall |-> Timespec(sec, nsec), logical |-> l]

\* Wall times the source and remote events range over: a negative second,
\* the zero wall, an out-of-range nanosecond count, a later second, and the
\* reading of the new_with doc example.
Walls ==
    { Timespec(-1, 9), Timespec(0, 0), Timespec(0, 1000000000),
      Timespec(1, 0), Timespec(42, 9919) }

\* Logical counters of remote events: both ends of the u16 range.
Logicals == { 0, 1, U16_MAX - 1, U16_MAX }

Events == { [wall |-> w, logical |-> l] : w \in Walls, l \in Logicals }

---------------------------------------------------------------------------
(* Ordering: #[derive(PartialEq, Eq, PartialOrd, Ord)] compares the fields *)
(* in declaration order and stops at the first that differs.               *)

IntCmp(x, y) == IF x < y THEN "Less" ELSE IF x > y THEN "Greater" ELSE "Equal"

\* time::Timespec { sec, nsec }: seconds first, nanoseconds second.
TimespecCmp(a, b) ==
    LET c == IntCmp(a.sec, b.sec)
    IN  IF c # "Equal" THEN c ELSE IntCmp(a.nsec, b.nsec)

\* Plausible slip: the logical counter compared before the wall time.
HLTimespecCmpLogicalFirst(a, b) ==
    LET c == IntCmp(a.logical, b.logical)
    IN  IF c # "Equal" THEN c ELSE TimespecCmp(a.wall, b.wall)

\* HLTimespec { wall, logical }: wall first, logical second.
HLTimespecCmp(a, b) ==
    LET c == TimespecCmp(a.wall, b.wall)
    IN  IF c # "Equal" THEN c ELSE IntCmp(a.logical, b.logical)

\* derived PartialEq: every field equal.
HLTimespecEq(a, b) ==
    a.wall.sec = b.wall.sec /\ a.wall.nsec = b.wall.nsec /\ a.logical = b.logical

WallLt(a, b) == TimespecCmp(a, b) = "Less"
WallGt(a, b) == TimespecCmp(a, b) = "Greater"
HLLt(a, b) == HLTimespecCmp(a, b) = "Less"

---------------------------------------------------------------------------
(* Display: "{}.{}+{}" of wall.sec, wall.nsec, logical *)

DigitChars == <<"0", "1", "2", "3", "4", "5", "6", "7", "8", "9">>

\* Display of an unsigned integer: decimal, no padding.
RECURSIVE DecNat(_)
DecNat(n) ==
    IF n < 10 THEN DigitChars[n + 1]
              ELSE DecNat(n \div 10) \o DigitChars[(n % 10) + 1]

\* Display of a signed integer: a minus sign, then the magnitude.
DecInt(n) == IF n < 0 THEN "-" \o DecNat(-n) ELSE DecNat(n)

\* Zero-padded to `width` digits, as "{:09}" would print.
RECURSIVE DecPadded(_, _)
DecPadded(n, width) ==
    IF width = 0 THEN ""
    ELSE DecPadded(n \div 10, width - 1) \o DigitChars[(n % 10) + 1]

\* Plausible slip: nanoseconds printed as a nine-digit fraction.
fmt_padded(t) ==
    DecInt(t.wall.sec) \o "." \o DecPadded(t.wall.nsec, 9) \o "+"
        \o DecNat(t.logical)

\* impl Display for HLTimespec
fmt(t) ==
    DecInt(t.wall.sec) \o "." \o DecInt(t.wall.nsec) \o "+" \o DecNat(t.logical)

---------------------------------------------------------------------------
(* The clock *)

\* Plausible slip-free variant: the counter saturates at its maximum.
add_u16_saturating(x, y, checks) ==
    IF x + y > U16_MAX THEN [ok |-> TRUE, val |-> U16_MAX]
                       ELSE [ok |-> TRUE, val |-> x + y]

\* u16 addition: with overflow checks on (debug profile) an overflowing add
\* panics; with them off (release profile) it wraps modulo 2^16.
add_u16(x, y, checks) ==
    IF x + y > U16_MAX
    THEN IF checks THEN [ok |-> FALSE, val |-> x]
                   ELSE [ok |-> TRUE, val |-> (x + y) % (U16_MAX + 1)]
    ELSE [ok |-> TRUE, val |-> x + y]

\* State::new_with: the clock starts at the zero timestamp.
new_with == new(0, 0, 0)

\* Plausible slip: the increment is not in an else branch, so it also runs
\* after the reset.
get_time_no_else(st, wall, checks) ==
    LET t == IF WallLt(st.wall, wall) THEN [wall |-> wall, logical |-> 0]
                                      ELSE st
        a == add_u16(t.logical, 1, checks)
    IN  [ok |-> a.ok, s |-> [t EXCEPT !.logical = a.val]]

\* Plausible slip: the reading is taken whenever it differs from s.wall,
\* also when it is behind.
get_time_takes_reading(st, wall, checks) ==
    IF st.wall # wall
    THEN [ok |-> TRUE, s |-> [wall |-> wall, logical |-> 0]]
    ELSE LET a == add_u16(st.logical, 1, checks)
         IN  [ok |-> a.ok, s |-> [st EXCEPT !.logical = a.val]]

\* State::get_time with `wall` the reading (self.now)() returned.
\* Result: the State.s left behind, and whether the call returned (ok) or
\* panicked.
get_time(st, wall, checks) ==
    IF WallLt(st.wall, wall)
    THEN [ok |-> TRUE, s |-> [wall |-> wall, logical |-> 0]]
    ELSE LET a == add_u16(st.logical, 1, checks)
         IN  [ok |-> a.ok, s |-> [st EXCEPT !.logical = a.val]]

\* Plausible slip: on equal walls the event's logical counter is ignored.
update_tie_no_max(st, wall, event, checks) ==
    IF WallGt(wall, event.wall) /\ WallGt(wall, st.wall)
    THEN [ok |-> TRUE, s |-> [wall |-> wall, logical |-> 0]]
    ELSE IF WallGt(event.wall, st.wall)
    THEN LET a == add_u16(event.logical, 1, checks)
         IN  [ok |-> a.ok,
              s  |-> [wall |-> event.wall,
                      logical |-> IF a.ok THEN a.val ELSE st.logical]]
    ELSE LET a == add_u16(st.logical, 1, checks)
         IN  [ok |-> a.ok, s |-> [st EXCEPT !.logical = a.val]]

\* Plausible slip: on equal walls the event's logical counter is taken
\* without testing that it is the larger one.
update_tie_takes_event(st, wall, event, checks) ==
    IF WallGt(wall, event.wall) /\ WallGt(wall, st.wall)
    THEN [ok |-> TRUE, s |-> [wall |-> wall, logical |-> 0]]
    ELSE IF WallGt(event.wall, st.wall)
    THEN LET a == add_u16(event.logical, 1, checks)
         IN  [ok |-> a.ok,
              s  |-> [wall |-> event.wall,
                      logical |-> IF a.ok THEN a.val ELSE st.logical]]
    ELSE IF WallGt(st.wall, event.wall)
    THEN LET a == add_u16(st.logical, 1, checks)
         IN  [ok |-> a.ok, s |-> [st EXCEPT !.logical = a.val]]
    ELSE LET a == add_u16(event.logical, 1, checks)
         IN  [ok |-> a.ok, s |-> [st EXCEPT !.logical = a.val]]

\* Plausible slip: the event-leads case tested before the physical clock.
update_event_first(st, wall, event, checks) ==
    IF WallGt(event.wall, st.wall)
    THEN LET a == add_u16(event.logical, 1, checks)
         IN  [ok |-> a.ok,
              s  |-> [wall |-> event.wall,
                      logical |-> IF a.ok THEN a.val ELSE st.logical]]
    ELSE IF WallGt(wall, event.wall) /\ WallGt(wall, st.wall)
    THEN [ok |-> TRUE, s |-> [wall |-> wall, logical |-> 0]]
    ELSE IF WallGt(st.wall, event.wall)
    THEN LET a == add_u16(st.logical, 1, checks)
         IN  [ok |-> a.ok, s |-> [st EXCEPT !.logical = a.val]]
    ELSE LET m == IF event.logical > st.logical THEN event.logical
                                                ELSE st.logical
             a == add_u16(m, 1, checks)
         IN  [ok |-> a.ok, s |-> [st EXCEPT !.logical = a.val]]

\* State::update with `wall` the reading (self.now)() returned.
update(st, wall, event, checks) ==
    IF WallGt(wall, event.wall) /\ WallGt(wall, st.wall)
    THEN [ok |-> TRUE, s |-> [wall |-> wall, logical |-> 0]]
    ELSE IF WallGt(event.wall, st.wall)
    THEN \* s.wall is assigned before event.logical+1 is evaluated
         LET a == add_u16(event.logical, 1, checks)
         IN  [ok |-> a.ok,
              s  |-> [wall |-> event.wall,
                      logical |-> IF a.ok THEN a.val ELSE st.logical]]
    ELSE IF WallGt(st.wall, event.wall)
    THEN LET a == add_u16(st.logical, 1, checks)
         IN  [ok |-> a.ok, s |-> [st EXCEPT !.logical = a.val]]
    ELSE \* s.logical takes event.logical if larger, then is incremented
         LET m == IF event.logical > st.logical THEN event.logical
                                                ELSE st.logical
             a == add_u16(m, 1, checks)
         IN  [ok |-> a.ok, s |-> [st EXCEPT !.logical = a.val]]

---------------------------------------------------------------------------
(* Spec: one State, any source, any events *)

\* Wall times compared on their integer fields.
WallLess(a, b) == a.sec < b.sec \/ (a.sec = b.sec /\ a.nsec < b.nsec)
WallSame(a, b) == a.sec = b.sec /\ a.nsec = b.nsec

\* The greatest of a wall time and those of a set.
WallMax(a, S) ==
    LET all == S \cup {a}
    IN  CHOOSE m \in all : \A x \in all : ~WallLess(m, x)

\* The effect of one call on the clock's variables.
Finish(op, wall, event, r) ==
    /\ s' = r.s
    /\ status' = IF r.ok THEN "returned" ELSE "panicked"
    /\ ret' = IF r.ok THEN <<r.s>> ELSE <<>>
    /\ issued' = IF r.ok THEN Append(issued, r.s) ELSE issued
    /\ call' = [op |-> op, wall |-> wall, event |-> event, prev |-> s]
    /\ maxin' = WallMax(maxin, {wall[1]} \cup {event[i].wall : i \in 1..Len(event)})

\* A State just constructed, in either build profile.
ClockInit ==
    /\ s = new_with
    /\ oc \in BOOLEAN
    /\ status = "idle"
    /\ ret = <<>>
    /\ issued = <<>>
    /\ call = [op |-> "none", wall |-> <<>>, event |-> <<>>, prev |-> new_with]
    /\ maxin = Timespec(0, 0)

\* No comparison made and nothing rendered yet.
NoCmp == [done |-> FALSE]
NoShown == [done |-> FALSE]
ValueIdle == cmp = NoCmp /\ shown = NoShown

\* No network and no Mutex in use.
NoEv == [n |-> 0]
NetIdle == nodes = <<>> /\ msgs = {} /\ ev = NoEv
MutexIdle == mu = [holder |-> 0, poisoned |-> FALSE] /\ threads = <<>>

Init ==
    /\ ClockInit
    /\ ValueIdle
    /\ ops = <<>> /\ times = <<>>
    /\ NetIdle
    /\ MutexIdle

GetTime ==
    /\ status # "panicked"
    /\ Len(issued) < MaxCalls
    /\ \E wall \in Walls :
          Finish("get_time", <<wall>>, <<>>, get_time(s, wall, oc))
    /\ UNCHANGED <<oc, cmp, shown, replayVars, netVars, muVars>>

Update ==
    /\ status # "panicked"
    /\ Len(issued) < MaxCalls
    /\ \E wall \in Walls, event \in Events :
          Finish("update", <<wall>>, <<event>>, update(s, wall, event, oc))
    /\ UNCHANGED <<oc, cmp, shown, replayVars, netVars, muVars>>

Next == GetTime \/ Update

Spec == Init /\ [][Next]_vars

---------------------------------------------------------------------------
(* Claims checked under Spec *)

\* The (wall, logical) order written out on the integer fields.
Before(a, b) ==
    \/ a.wall.sec < b.wall.sec
    \/ a.wall.sec = b.wall.sec /\ a.wall.nsec < b.wall.nsec
    \/ a.wall.sec = b.wall.sec /\ a.wall.nsec = b.wall.nsec
         /\ a.logical < b.logical

\* Calls made so far: those that returned, and the one that panicked.
NumCalls == Len(issued) + (IF status = "panicked" THEN 1 ELSE 0)

\* C1 (as claimed): every timestamp a call returns is strictly greater than
\* the state held just before the call and than every timestamp the clock
\* returned earlier.
C1_Monotonic ==
    status = "returned" =>
        /\ Before(call.prev, ret[1])
        /\ \A i \in 1..(Len(issued) - 1) : Before(issued[i], ret[1])

\* C2 (as claimed): the timestamp update(event) returns is strictly greater
\* than the state held before the call and strictly greater than event.
C2_Causality ==
    (status = "returned" /\ call.op = "update") =>
        /\ Before(call.prev, ret[1])
        /\ Before(call.event[1], ret[1])

\* C6 (as claimed): no call fails; every get_time and update returns.
C6_Totality == status # "panicked"

\* C9: a new clock holds the zero timestamp, and its first get_time returns
\* (physical, logical 0) for every reading strictly greater than 0s/0ns.
C9_FirstNow ==
    /\ (status = "idle" =>
            s.wall.sec = 0 /\ s.wall.nsec = 0 /\ s.logical = 0)
    /\ (NumCalls = 1
            /\ call.op = "get_time"
            /\ (call.wall[1].sec > 0
                 \/ (call.wall[1].sec = 0 /\ call.wall[1].nsec > 0))
        => /\ status = "returned"
           /\ ret[1] = [wall |-> call.wall[1], logical |-> 0]
           /\ s = ret[1])

\* C9 witness: the doc example, a first get_time on a source reading
\* 42s 9919ns, has returned 42.9919+0.
C9_Witness ==
    /\ Len(issued) = 1
    /\ call.op = "get_time"
    /\ call.wall = <<Timespec(42, 9919)>>
    /\ ret = <<new(42, 9919, 0)>>

---------------------------------------------------------------------------
(* SpecValue: the HLTimespec value type, compared and rendered *)

\* Timestamps compared: a negative and a positive second, nanoseconds and
\* logical counters that order against the seconds, and the three values of
\* the HLTimespec doc example.
OrdTimes ==
    { new(sec, nsec, l) : sec \in {-1, 1}, nsec \in 0..MaxNsec,
                          l \in {0, 1, U16_MAX} }

\* Timestamps rendered.
ShownTimes ==
    { new(sec, nsec, l) : sec \in {-1, 1, 42},
                          nsec \in {0, 2, 9919, 1000000000},
                          l \in {0, 3, U16_MAX} }

ClockUnused ==
    /\ s = new_with
    /\ oc = FALSE
    /\ status = "idle"
    /\ ret = <<>>
    /\ issued = <<>>
    /\ call = [op |-> "none", wall |-> <<>>, event |-> <<>>, prev |-> new_with]
    /\ maxin = Timespec(0, 0)

ValueInit ==
    /\ ClockUnused
    /\ ValueIdle
    /\ ops = <<>> /\ times = <<>>
    /\ NetIdle
    /\ MutexIdle

\* a.cmp(&b), b.cmp(&a), b.cmp(&c), a.cmp(&c) and a == b on three timestamps.
\* The operations are pure: a behaviour applies one of them once.
Compare ==
    /\ ~cmp.done /\ ~shown.done
    /\ \E a \in OrdTimes, b \in OrdTimes, c \in OrdTimes :
          cmp' = [done |-> TRUE, a |-> a, b |-> b, c |-> c,
                  ab |-> HLTimespecCmp(a, b), ba |-> HLTimespecCmp(b, a),
                  bc |-> HLTimespecCmp(b, c), ac |-> HLTimespecCmp(a, c),
                  eq |-> HLTimespecEq(a, b)]
    /\ shown' = NoShown
    /\ UNCHANGED <<clockVars, replayVars, netVars, muVars>>

\* format!("{}", t)
Display ==
    /\ ~cmp.done /\ ~shown.done
    /\ \E t \in ShownTimes : shown' = [done |-> TRUE, t |-> t, out |-> fmt(t)]
    /\ cmp' = NoCmp
    /\ UNCHANGED <<clockVars, replayVars, netVars, muVars>>

ValueNext == Compare \/ Display

SpecValue == ValueInit /\ [][ValueNext]_vars

\* C4: a < b iff a.wall < b.wall, or the walls are equal and
\* a.logical < b.logical, where walls compare seconds first and nanoseconds
\* second; exactly one of a < b, a = b, b < a holds; the order is
\* transitive; and a = b only when all three fields are equal.
C4_TotalOrder ==
    cmp.done =>
        LET a == cmp.a
            b == cmp.b
            wallLess == \/ a.wall.sec < b.wall.sec
                        \/ a.wall.sec = b.wall.sec /\ a.wall.nsec < b.wall.nsec
            wallSame == a.wall.sec = b.wall.sec /\ a.wall.nsec = b.wall.nsec
            lt == cmp.ab = "Less"
            gt == cmp.ba = "Less"
        IN  /\ lt <=> (wallLess \/ (wallSame /\ a.logical < b.logical))
            /\ (lt /\ ~cmp.eq /\ ~gt) \/ (~lt /\ cmp.eq /\ ~gt)
                    \/ (~lt /\ ~cmp.eq /\ gt)
            /\ (lt /\ cmp.bc = "Less") => cmp.ac = "Less"
            /\ cmp.eq => (wallSame /\ a.logical = b.logical)
            /\ cmp.eq <=> (cmp.ab = "Equal")

\* C4 witness: the doc example, early = (1,0,0) < middle = (1,1,0) <
\* late = (1,1,1), has been compared.
C4_Witness ==
    /\ cmp.done
    /\ cmp.a = new(1, 0, 0) /\ cmp.b = new(1, 1, 0) /\ cmp.c = new(1, 1, 1)
    /\ cmp.ab = "Less" /\ cmp.bc = "Less" /\ cmp.ac = "Less"

\* The decimal numerals of the rendered field values, written out.
Numeral(n) ==
    CASE n = -1 -> "-1"
      [] n = 0 -> "0"
      [] n = 1 -> "1"
      [] n = 2 -> "2"
      [] n = 3 -> "3"
      [] n = 42 -> "42"
      [] n = 9919 -> "9919"
      [] n = 65535 -> "65535"
      [] n = 1000000000 -> "1000000000"

\* C10: rendering (s, ns, l) yields the decimal seconds, a dot, the decimal
\* nanoseconds without zero padding, a plus sign and the decimal logical
\* counter; (1, 2, 3) renders as exactly "1.2+3".
C10_Render ==
    shown.done =>
        /\ shown.out = Numeral(shown.t.wall.sec) \o "."
                          \o Numeral(shown.t.wall.nsec) \o "+"
                          \o Numeral(shown.t.logical)
        /\ (shown.t = new(1, 2, 3) => shown.out = "1.2+3")
        /\ (shown.t = new(42, 9919, 0) => shown.out = "42.9919+0")

\* C10 witness: HLTimespec::new(1, 2, 3) has been rendered as "1.2+3".
C10_Witness ==
    shown.done /\ shown.t = new(1, 2, 3) /\ shown.out = "1.2+3"

---------------------------------------------------------------------------
(* SpecReplay: tests::it_works, one State fed by a scripted source *)

Row(wall, event) == [wall |-> wall, event |-> event]

zero == new(0, 0, 0)

\* The ops table of it_works: (wall, event_ts) of each row.
ItWorks ==
    << Row(Timespec(1, 0), zero),
       Row(Timespec(1, 0), zero),
       Row(Timespec(0, 9), zero),
       Row(Timespec(2, 0), zero),
       Row(Timespec(3, 0), new(1, 2, 3)),
       Row(Timespec(3, 0), new(1, 2, 3)),
       Row(Timespec(3, 0), new(3, 0, 1)),
       Row(Timespec(3, 0), new(3, 0, 99)),
       Row(Timespec(3, 5), new(4, 4, 100)),
       Row(Timespec(5, 0), new(4, 5, 0)),
       Row(Timespec(4, 9), new(5, 0, 99)),
       Row(Timespec(0, 0), new(5, 0, 50)) >>

\* The outcome column of the ops table.
ItWorksWant ==
    << new(1, 0, 0), new(1, 0, 1), new(1, 0, 2), new(2, 0, 0),
       new(3, 0, 0), new(3, 0, 1), new(3, 0, 2), new(3, 0, 100),
       new(4, 4, 101), new(5, 0, 0), new(5, 0, 100), new(5, 0, 101) >>

\* The six calls of the reference scenario as the test has them (rows 1-5
\* and 7, the regressed reading being 0s 9ns) ...
ScenarioTest ==
    << ItWorks[1], ItWorks[2], ItWorks[3], ItWorks[4], ItWorks[5], ItWorks[7] >>

\* ... and with the regressed reading at 0.9s.
ScenarioSpec ==
    << ItWorks[1], ItWorks[2], Row(Timespec(0, 900000000), zero),
       ItWorks[4], ItWorks[5], ItWorks[7] >>

ScenarioWant ==
    << new(1, 0, 0), new(1, 0, 1), new(1, 0, 2), new(2, 0, 0),
       new(3, 0, 0), new(3, 0, 2) >>

\* Rows of the free scripts: those of the table and the scenario, and one
\* whose event carries the largest logical counter.
Rows ==
    { ItWorks[i] : i \in 1..Len(ItWorks) }
        \cup { ScenarioSpec[i] : i \in 1..Len(ScenarioSpec) }
        \cup { Row(Timespec(3, 0), new(3, 0, U16_MAX)) }

\* Scripts replayed: the table, the scenario, and every short script of rows.
Scripts ==
    { ItWorks, ScenarioTest, ScenarioSpec }
        \cup UNION { [1..n -> Rows] : n \in 0..MaxScript }

\* Plausible slip: the readings collected without .rev(), so that pop()
\* hands out the last row's first.
times_not_reversed(script) == [i \in 1..Len(script) |-> script[i].wall]

\* ops.iter().rev().map(|op| op.0).collect(): the wall column, last row
\* first.
times_of(script) ==
    [i \in 1..Len(script) |-> script[Len(script) + 1 - i].wall]

\* Plausible slip: the source looks at the last reading without removing it.
now_peek(v) == [wall |-> v[Len(v)], rest |-> v]

\* The source move || times.pop().unwrap(): one reading taken off the end.
now_pop(v) == [wall |-> v[Len(v)], rest |-> SubSeq(v, 1, Len(v) - 1)]

ReplayInit ==
    /\ ClockInit
    /\ ValueIdle
    /\ ops \in Scripts
    /\ times = times_of(ops)
    /\ NetIdle
    /\ MutexIdle

\* One turn of the test's loop: the row is a get_time when its event is
\* zero, an update otherwise; either calls the source once, which pops one
\* reading, before it does anything else.
Replay ==
    /\ status # "panicked"
    /\ Len(issued) < Len(ops)
    /\ LET op == ops[Len(issued) + 1]
           rd == now_pop(times)
       IN  /\ IF op.event = zero
              THEN Finish("get_time", <<rd.wall>>, <<>>,
                          get_time(s, rd.wall, oc))
              ELSE Finish("update", <<rd.wall>>, <<op.event>>,
                          update(s, rd.wall, op.event, oc))
           /\ times' = rd.rest
    /\ UNCHANGED <<oc, cmp, shown, ops, netVars, muVars>>

ReplayNext == Replay

SpecReplay == ReplayInit /\ [][ReplayNext]_vars

\* C8: on a fresh clock whose source returns 1.0s, 1.0s, a reading below
\* 1.0s, 2.0s, 3.0s, 3.0s, the calls now, now, now, now, merge((1,2,3)),
\* merge((3,0,1)) return exactly (1.0, 0), (1.0, 1), (1.0, 2), (2.0, 0),
\* (3.0, 0), (3.0, 2).
C8_Scenario ==
    ops \in {ScenarioSpec, ScenarioTest} =>
        /\ status # "panicked"
        /\ \A i \in 1..Len(issued) : issued[i] = ScenarioWant[i]
        /\ (Len(issued) > 0 => ret = <<ScenarioWant[Len(issued)]>>)

\* C8 witness: the scenario has run to its sixth call, which returned
\* (3.0, logical 2).
C8_Witness ==
    /\ ops = ScenarioSpec
    /\ Len(issued) = 6
    /\ call.op = "update" /\ call.event = <<new(3, 0, 1)>>
    /\ ret = <<new(3, 0, 2)>>

\* C17: each get_time and each update reads the source exactly once: after
\* n calls the scripted source has had exactly n readings consumed, in
\* order, the k-th call having used the k-th reading.
C17_ReadsOnce ==
    /\ Len(times) = Len(ops) - NumCalls
    /\ \A k \in 1..Len(times) : times[k] = ops[Len(ops) + 1 - k].wall
    /\ NumCalls > 0 => call.wall = <<ops[NumCalls].wall>>

\* C17 witness: the twelve rows of the table have been run, the source is
\* empty, and the twelfth call used the twelfth reading, 0s 0ns.
C17_Witness ==
    /\ ops = ItWorks
    /\ NumCalls = 12
    /\ times = <<>>
    /\ call.wall = <<Timespec(0, 0)>>

\* A call that panics has consumed its reading too.
C17_PanicReached ==
    status = "panicked" /\ Len(times) = Len(ops) - Len(issued) - 1

\* The assert_eq! of it_works: every row of the table yields its outcome.
ItWorksPasses ==
    ops = ItWorks =>
        /\ status # "panicked"
        /\ \A i \in 1..Len(issued) : issued[i] = ItWorksWant[i]

---------------------------------------------------------------------------
(* SpecNet: independent States, each with its own source; a sender stamps  *)
(* a message with get_time and the receiver folds the stamp in with update *)

Nodes == 1..NumNodes

\* Readings of the nodes' sources.
NetWalls == { Timespec(0, 1000000000), Timespec(1, 0), Timespec(2, 0) }

\* States a clock is in when the observation starts: just constructed, or
\* after get_time has been called 65535 times on a source standing at 1s
\* (the first call gives 1.0+0, each later one adds one logical tick).
NetStarts == { new_with, new(1, 0, U16_MAX - 1) }

NetInit ==
    /\ ClockInit
    /\ ValueIdle
    /\ ops = <<>> /\ times = <<>>
    /\ MutexIdle
    /\ nodes \in [Nodes -> { [s |-> c, past |-> {}, up |-> TRUE] : c \in NetStarts }]
    /\ msgs = {}
    /\ ev = NoEv

\* The event a node stamps: the node's clock moves to the returned
\* timestamp, which joins the node's past; a panic takes the node down.
Stamp(n, kind, r, before) ==
    /\ nodes' = [nodes EXCEPT ![n] =
                    [s |-> r.s,
                     past |-> IF r.ok THEN before \cup {r.s} ELSE @.past,
                     up |-> r.ok]]
    /\ ev' = IF r.ok
             THEN [n |-> ev.n + 1, node |-> n, kind |-> kind, ts |-> r.s,
                   past |-> before]
             ELSE ev

\* Node n stamps an outgoing message with get_time and sends it.
Send(n) ==
    /\ nodes[n].up
    /\ ev.n < MaxEvents
    /\ \E wall \in NetWalls :
          LET r == get_time(nodes[n].s, wall, oc)
          IN  /\ Stamp(n, "send", r, nodes[n].past)
              /\ msgs' = IF r.ok
                         THEN msgs \cup {[from |-> n, ts |-> r.s,
                                          past |-> nodes[n].past]}
                         ELSE msgs
    /\ UNCHANGED <<clockVars, valueVars, replayVars, muVars>>

\* Node n receives a message of another node and folds its timestamp in
\* with update. Messages may arrive in any order, late, or more than once.
Receive(n) ==
    /\ nodes[n].up
    /\ ev.n < MaxEvents
    /\ \E m \in msgs, wall \in NetWalls :
          /\ m.from # n
          /\ Stamp(n, "receive", update(nodes[n].s, wall, m.ts, oc),
                   nodes[n].past \cup m.past \cup {m.ts})
    /\ UNCHANGED <<clockVars, valueVars, replayVars, muVars, msgs>>

NetNext == \E n \in Nodes : Send(n) \/ Receive(n)

SpecNet == NetInit /\ [][NetNext]_vars

\* C3 (as claimed): whenever event A happens before event B (same clock
\* earlier, or A's stamp reached B's clock directly or through a chain of
\* messages), the timestamp of B is strictly greater than the timestamp
\* of A.
C3_HappensBefore ==
    ev.n > 0 => \A a \in ev.past : Before(a, ev.ts)

---------------------------------------------------------------------------
(* SpecMutex: State::new_sendable, the State behind a Mutex. Each thread   *)
(* runs the doc example: lock().unwrap(), one call, guard dropped.         *)

Threads == 1..NumThreads

MutexInit ==
    /\ ClockInit
    /\ ValueIdle
    /\ ops = <<>> /\ times = <<>>
    /\ NetIdle
    /\ mu = [holder |-> 0, poisoned |-> FALSE]
    /\ threads = [t \in Threads |-> [pc |-> "idle", got |-> <<>>]]

\* mu.lock().unwrap(): taken when the Mutex is free; on a poisoned Mutex
\* lock() returns Err and unwrap panics.
Lock(t) ==
    /\ threads[t].pc = "idle"
    /\ mu.holder = 0
    /\ Len(issued) < MaxCalls
    /\ IF mu.poisoned
       THEN /\ threads' = [threads EXCEPT ![t].pc = "panicked"]
            /\ UNCHANGED mu
       ELSE /\ threads' = [threads EXCEPT ![t].pc = "locked"]
            /\ mu' = [mu EXCEPT !.holder = t]
    /\ UNCHANGED <<clockVars, valueVars, replayVars, netVars>>

\* What a call under the lock leaves: the timestamp handed to the thread,
\* or, on a panic, the guard dropped while unwinding, which poisons the
\* Mutex.
Under(t) ==
    IF status' = "returned"
    THEN /\ threads' = [threads EXCEPT ![t].pc = "called",
                                       ![t].got = Append(@, ret'[1])]
         /\ UNCHANGED mu
    ELSE /\ threads' = [threads EXCEPT ![t].pc = "panicked"]
         /\ mu' = [holder |-> 0, poisoned |-> TRUE]

\* s.get_time() through the guard.
LockedGetTime(t) ==
    /\ threads[t].pc = "locked"
    /\ mu.holder = t
    /\ \E wall \in Walls :
          Finish("get_time", <<wall>>, <<>>, get_time(s, wall, oc))
    /\ Under(t)
    /\ UNCHANGED <<oc, valueVars, replayVars, netVars>>

\* s.update(event) through the guard.
LockedUpdate(t) ==
    /\ threads[t].pc = "locked"
    /\ mu.holder = t
    /\ \E wall \in Walls, event \in Events :
          Finish("update", <<wall>>, <<event>>, update(s, wall, event, oc))
    /\ Under(t)
    /\ UNCHANGED <<oc, valueVars, replayVars, netVars>>

\* End of the block: the guard is dropped and the Mutex released.
Unlock(t) ==
    /\ threads[t].pc = "called"
    /\ mu.holder = t
    /\ mu' = [mu EXCEPT !.holder = 0]
    /\ threads' = [threads EXCEPT ![t].pc = "idle"]
    /\ UNCHANGED <<clockVars, valueVars, replayVars, netVars>>

MutexNext ==
    \E t \in Threads :
        Lock(t) \/ LockedGetTime(t) \/ LockedUpdate(t) \/ Unlock(t)

SpecMutex == MutexInit /\ [][MutexNext]_vars

\* C5 (as claimed): with every call made under the lock, the timestamps
\* handed out are strictly increasing in the order in which the lock was
\* acquired, so no two callers ever receive the same timestamp.
C5_SharedMonotonic ==
    /\ \A i \in 1..Len(issued), j \in 1..Len(issued) :
          i < j => Before(issued[i], issued[j])
    /\ \A t \in Threads, u \in Threads :
          \A i \in 1..Len(threads[t].got), j \in 1..Len(threads[u].got) :
              (t # u \/ i # j) => threads[t].got[i] # threads[u].got[j]

\* The lock serialises the calls: at most one thread is inside a call or
\* holds a result under the guard, and it is the holder.
MutualExclusion ==
    \A t \in Threads :
        threads[t].pc \in {"locked", "called"} <=> mu.holder = t

---------------------------------------------------------------------------
(* Claims about one call, checked under Spec. The last call is `call`: its *)
(* operation, the reading it took, its event, and the state before it.     *)

IsGetTime == call.op = "get_time"
IsUpdate == call.op = "update"

\* The four cases of update, by the reading, the event and the prior state.
PhysicalLeads ==
    /\ IsUpdate
    /\ WallLess(call.event[1].wall, call.wall[1])
    /\ WallLess(call.prev.wall, call.wall[1])
EventLeads ==
    /\ IsUpdate
    /\ WallLess(call.prev.wall, call.event[1].wall)
    /\ ~WallLess(call.event[1].wall, call.wall[1])
WallsTie ==
    /\ IsUpdate
    /\ WallSame(call.prev.wall, call.event[1].wall)
    /\ ~WallLess(call.prev.wall, call.wall[1])
LocalLeads ==
    /\ IsUpdate
    /\ WallLess(call.event[1].wall, call.prev.wall)
    /\ ~WallLess(call.prev.wall, call.wall[1])

\* C11 (as claimed): get_time with a reading above current.wall leaves and
\* returns (reading, logical 0); otherwise current.wall is unchanged and
\* current.logical is incremented by exactly one; the returned value is the
\* updated current.
C11_NowStep ==
    IsGetTime =>
        /\ status = "returned" /\ ret = <<s>>
        /\ IF WallLess(call.prev.wall, call.wall[1])
           THEN s = [wall |-> call.wall[1], logical |-> 0]
           ELSE s = [wall |-> call.prev.wall,
                     logical |-> call.prev.logical + 1]

\* C12: update with a reading above both event.wall and current.wall
\* returns (reading, logical 0), whatever the two logical counters were and
\* also when event.wall is itself ahead of current.wall.
C12_PhysicalLeads ==
    PhysicalLeads =>
        /\ status = "returned"
        /\ ret = <<[wall |-> call.wall[1], logical |-> 0]>>
        /\ s = ret[1]

\* C12 witness: a reading above an event that is itself ahead of the
\* clock, both logical counters being non-zero, has given (reading, 0).
C12_Witness ==
    /\ PhysicalLeads
    /\ WallLess(call.prev.wall, call.event[1].wall)
    /\ call.prev.logical > 0 /\ call.event[1].logical = U16_MAX
    /\ ret = <<[wall |-> call.wall[1], logical |-> 0]>>

\* C13 (as claimed): update with event.wall above current.wall and a
\* reading not above event.wall returns (event.wall, event.logical + 1).
C13_EventLeads ==
    EventLeads =>
        /\ status = "returned"
        /\ ret = <<[wall |-> call.event[1].wall,
                    logical |-> call.event[1].logical + 1]>>
        /\ s = ret[1]

\* C14 (as claimed): update with current.wall = event.wall and a reading
\* not above that wall keeps the wall and sets the logical counter to
\* max(current.logical, event.logical) + 1.
C14_WallsTie ==
    WallsTie =>
        /\ status = "returned"
        /\ ret = <<[wall |-> call.prev.wall,
                    logical |->
                        (IF call.prev.logical > call.event[1].logical
                         THEN call.prev.logical
                         ELSE call.event[1].logical) + 1]>>
        /\ s = ret[1]

\* C15 (as claimed): update with current.wall above event.wall and a
\* reading not above current.wall leaves current.wall unchanged and
\* increments current.logical by exactly one, whatever the event.
C15_LocalLeads ==
    LocalLeads =>
        /\ status = "returned"
        /\ ret = <<[wall |-> call.prev.wall,
                    logical |-> call.prev.logical + 1]>>
        /\ s = ret[1]

\* The last call applied its increment to a counter standing at 65535.
IncrementAtMax ==
    \/ /\ IsGetTime
       /\ ~WallLess(call.prev.wall, call.wall[1])
       /\ call.prev.logical = U16_MAX
    \/ EventLeads /\ call.event[1].logical = U16_MAX
    \/ LocalLeads /\ call.prev.logical = U16_MAX
    \/ WallsTie /\ (call.prev.logical = U16_MAX
                     \/ call.event[1].logical = U16_MAX)

\* The wall component the case of the last call prescribes.
WallPrescribed ==
    IF EventLeads THEN call.event[1].wall ELSE call.prev.wall

Wrapped ==
    /\ status = "returned"
    /\ ret = <<[wall |-> WallPrescribed, logical |-> 0]>>
    /\ s = ret[1]

C16_PanicReached ==
    IsGetTime /\ IncrementAtMax /\ oc /\ status = "panicked"

\* The event of the last call was not greater than the state before it.
Stale ==
    /\ IsUpdate
    /\ \/ WallLess(call.event[1].wall, call.prev.wall)
       \/ /\ WallSame(call.event[1].wall, call.prev.wall)
          /\ call.event[1].logical <= call.prev.logical

\* C19: update with an event not greater than current returns the same
\* timestamp and leaves the same state as get_time would from that state
\* with the same reading.
C19_StaleEvent ==
    Stale =>
        LET g == get_time(call.prev, call.wall[1], oc)
        IN  /\ s = g.s
            /\ (status = "returned") <=> g.ok
            /\ g.ok => ret = <<g.s>>

\* C19 witness: an event equal to the state 0.0+1 has been merged on a
\* source that has not advanced, and the call returned 0.0+2.
C19_Witness ==
    /\ Stale
    /\ call.event[1] = call.prev
    /\ call.prev.logical = 1
    /\ ret = <<[wall |-> call.prev.wall, logical |-> 2]>>

\* The wall times the last call had before it: the state's, the reading,
\* and for update the event's.
WallsOfCall ==
    {call.wall[1]} \cup {call.event[i].wall : i \in 1..Len(call.event)}

\* C18: after every get_time the new current.wall is the greatest of the
\* previous current.wall and the reading, after every update the greatest
\* of those and event.wall; so current.wall is the greatest of 0s/0ns, all
\* readings consumed and all event walls merged, it never decreases (also
\* when the logical counter overflows), and every returned timestamp has a
\* wall not below the reading of its call.
C18_RunningMax ==
    /\ s.wall = maxin
    /\ call.op # "none" =>
          /\ s.wall \in WallsOfCall \cup {call.prev.wall}
          /\ \A w \in WallsOfCall \cup {call.prev.wall} : ~WallLess(s.wall, w)
          /\ ~WallLess(s.wall, call.prev.wall)
    /\ status = "returned" => ~WallLess(ret[1].wall, call.wall[1])

\* C18 witness: an update whose event leads with logical 65535 has wrapped
\* the counter, and current.wall is the event's wall, above both the
\* previous wall and the reading.
C18_Witness ==
    /\ EventLeads
    /\ call.event[1].logical = U16_MAX
    /\ WallLess(call.wall[1], call.event[1].wall)
    /\ status = "returned"
    /\ s = [wall |-> call.event[1].wall, logical |-> 0]
    /\ maxin = call.event[1].wall

====
